---------------------------- MODULE Spec2Model ----------------------------
(***************************************************************************)
(* A model of pytest_mh/_private/multihost.py: MultihostConfig,            *)
(* MultihostDomain, MultihostHost, MultihostRole and MultihostUtility.     *)
(*                                                                         *)
(* Four specifications share the module:                                   *)
(*   SpecCascade   MultihostRole.setup / teardown over the utilities       *)
(*   SpecConfig    MultihostConfig.__init__ down to MultihostHost.__init__,*)
(*                 then MultihostDomain.create_role                        *)
(*   SpecPresent   the required-field validation of MultihostHost.__init__ *)
(*   SpecArtifacts MultihostHost.collect_artifacts                         *)
(* Each one leaves the variables of the others at their initial values.    *)
(***************************************************************************)
EXTENDS Integers, Sequences, FiniteSets, TLC

VARIABLES
    \* ---- MultihostRole / MultihostUtility cascade
    o,          \* the object's attributes, in assignment order: [name, utility]
    phase,      \* position of the caller in Role.setup() / Role.teardown()
    utils,      \* values of the dict returned by GetUtilityAttributes(o)
    idx,        \* position of the for loop in utils
    errors,     \* the local list "errors" of TeardownUtilityAttributes
    raised,     \* the exception the last cascade let out (NoException: none)
    calls,      \* log of the calls made on utilities: [op, util, out]
    \* ---- required-field validation of MultihostHost.__init__
    required,   \* self.required_fields of the host (sub)type
    confdict,   \* the host configuration document
    validation, \* outcome of the validation loop
    \* ---- MultihostConfig / MultihostDomain / MultihostHost construction
    lazy_ssh,   \* MultihostConfig.lazy_ssh
    domains,    \* MultihostConfig.domains
    cur,        \* the MultihostDomain whose __init__ is running
    sessions,   \* every SSHClient created so far, in creation order
    cfg_pc,     \* position in MultihostConfig.__init__
    domIter,    \* the iterator over confdict["domains"] has a next element
    hostIter,   \* the iterator over the domain's confdict["hosts"] has one
    error,      \* the exception that left MultihostConfig.__init__
    lastOs,     \* the "os" value of the host entry read by the last step
    seen,       \* what the parts of the document read so far contained
    built,      \* the value of domains when __init__ returned
    roleObjs,   \* the MultihostRole objects instantiated by create_role
    lastRole,   \* the last create_role call: [host, error]
    \* ---- MultihostHost.collect_artifacts
    self,       \* the host: its os, artifacts, role and hostname
    dest,       \* the argument dest
    art_pc,     \* position in collect_artifacts
    command,    \* the local variable "command"
    io,         \* log of the file-system and remote operations: [op, what]
    art_error   \* the exception that left collect_artifacts

cascadeVars == <<o, phase, utils, idx, errors, raised, calls>>
presentVars == <<required, confdict, validation>>

configVars ==
    <<lazy_ssh, domains, cur, sessions, cfg_pc, domIter, hostIter, error,
      lastOs, seen, built, roleObjs, lastRole>>

artifactVars == <<self, dest, art_pc, command, io, art_error>>

vars == <<cascadeVars, presentVars, configVars, artifactVars>>

----------------------------------------------------------------------------
(***************************************************************************)
(* Bounds.                                                                 *)
(***************************************************************************)

\* Attribute names of the object are 1..MaxAttr; the number is the rank of
\* the name in Python's string order (inspect.getmembers sorts by name).
MaxAttr == 3

\* A document has at most MaxDomains domains and MaxHosts hosts in all;
\* create_role is called at most MaxRoleCalls times.
MaxDomains == 2
MaxHosts == 2
MaxRoleCalls == 2

\* A required-field name declared by a host subtype has at most MaxSegments
\* names, joined by "/" or ".".
MaxSegments == 3

\* A host declares at most MaxArtifacts artifact patterns.
MaxArtifacts == 2

----------------------------------------------------------------------------
(***************************************************************************)
(* Helpers.                                                                *)
(***************************************************************************)

Range(s) == {s[i] : i \in DOMAIN s}

\* sorted(S) for a set of name ranks
RECURSIVE SortedSeq(_)
SortedSeq(S) ==
    IF S = {} THEN <<>>
    ELSE LET m == CHOOSE x \in S : \A y \in S : x <= y
         IN  <<m>> \o SortedSeq(S \ {m})

\* injective sequences over S of length at most n
InjSeqs(S, n) ==
    {s \in UNION {[1..k -> S] : k \in 0..n} :
        \A i, j \in DOMAIN s : i # j => s[i] # s[j]}

NoException == [kind |-> "None", by |-> 0, op |-> "", args |-> <<>>]

\* What a call of user code (util.setup(), util.teardown()) can do: return,
\* raise an instance of Exception, or raise a BaseException that is not an
\* Exception (KeyboardInterrupt, SystemExit, pytest's outcome exceptions).
CallOutcomes == {"ok", "Exception", "BaseException"}

\* The exception object raised by utility u in operation op.
Raise(kind, u, op) == [kind |-> kind, by |-> u, op |-> op, args |-> <<>>]

----------------------------------------------------------------------------
(***************************************************************************)
(* MultihostUtility: discovery and the two cascades.                       *)
(***************************************************************************)

\* inspect.getmembers(o, predicate): the (name, value) pairs of the members
\* that satisfy the predicate, sorted by name.  Only the names are kept: the
\* value of attribute n is the utility n.
getmembers(obj, isUtility) ==
    SortedSeq({obj[i].name : i \in {j \in DOMAIN obj : obj[j].utility = isUtility}})

\* Mutant: the attributes in assignment order (o.__dict__), unsorted.
GetUtilityAttributes_Unsorted(obj) ==
    LET keep == SelectSeq(obj, LAMBDA a : a.utility)
    IN  [i \in DOMAIN keep |-> keep[i].name]

\* GetUtilityAttributes(o): dict(inspect.getmembers(o, isinstance Utility));
\* a dict keeps insertion order, so .values() is in name order.
GetUtilityAttributes(obj) == getmembers(obj, TRUE)

\* MultihostRole.setup -> SetupUtilityAttributes: entry, the dict is built.
RoleSetup ==
    /\ phase = "new"
    /\ phase' = "setup"
    /\ utils' = GetUtilityAttributes(o)
    /\ idx' = 1
    /\ UNCHANGED <<o, errors, raised, calls>>

\* One iteration of "for util in ...: util.setup()": no try, so whatever
\* setup() raises leaves the loop and the cascade.
SetupCall(out) ==
    /\ phase = "setup"
    /\ idx <= Len(utils)
    /\ calls' = Append(calls, [op |-> "setup", util |-> utils[idx], out |-> out])
    /\ IF out = "ok"
       THEN /\ idx' = idx + 1
            /\ UNCHANGED <<phase, raised>>
       ELSE /\ phase' = "setup_raised"
            /\ raised' = Raise(out, utils[idx], "setup")
            /\ UNCHANGED idx
    /\ UNCHANGED <<o, utils, errors>>

\* The loop of SetupUtilityAttributes is exhausted: setup() returns.
SetupReturn ==
    /\ phase = "setup"
    /\ idx > Len(utils)
    /\ phase' = "ready"
    /\ UNCHANGED <<o, utils, idx, errors, raised, calls>>

\* Mutant: teardown visits only the utilities whose setup() returned.
RoleTeardown_Tracked ==
    /\ phase \in {"new", "ready", "setup_raised"}
    /\ phase' = "teardown"
    /\ errors' = <<>>
    /\ utils' = SelectSeq(GetUtilityAttributes(o),
                    LAMBDA u : \E i \in DOMAIN calls :
                        calls[i] = [op |-> "setup", util |-> u, out |-> "ok"])
    /\ idx' = 1
    /\ raised' = NoException
    /\ UNCHANGED <<o, calls>>

\* MultihostRole.teardown -> TeardownUtilityAttributes: entry.  Nothing in
\* Role records whether setup() ran or how far it got, so teardown() can be
\* called on a new role, after a setup that returned and after one that raised.
RoleTeardown ==
    /\ phase \in {"new", "ready", "setup_raised"}
    /\ phase' = "teardown"
    /\ errors' = <<>>
    /\ utils' = GetUtilityAttributes(o)
    /\ idx' = 1
    /\ raised' = NoException
    /\ UNCHANGED <<o, calls>>

\* Mutant: the first failure is raised at once (no try/except in the loop).
TeardownCall_FailFast(out) ==
    /\ phase = "teardown"
    /\ idx <= Len(utils)
    /\ calls' = Append(calls, [op |-> "teardown", util |-> utils[idx], out |-> out])
    /\ IF out = "ok"
       THEN /\ idx' = idx + 1
            /\ UNCHANGED <<phase, raised>>
       ELSE /\ phase' = "teardown_raised"
            /\ raised' = Raise(out, utils[idx], "teardown")
            /\ UNCHANGED idx
    /\ UNCHANGED <<o, utils, errors>>

\* One iteration of the teardown loop:
\*     try: util.teardown()
\*     except Exception as e: errors.append(e)
\* The except clause names Exception: a BaseException that is not an
\* Exception is not caught and leaves the loop.
TeardownCall(out) ==
    /\ phase = "teardown"
    /\ idx <= Len(utils)
    /\ calls' = Append(calls, [op |-> "teardown", util |-> utils[idx], out |-> out])
    /\ CASE out = "ok" ->
              /\ idx' = idx + 1
              /\ UNCHANGED <<phase, errors, raised>>
         [] out = "Exception" ->
              /\ errors' = Append(errors, Raise(out, utils[idx], "teardown"))
              /\ idx' = idx + 1
              /\ UNCHANGED <<phase, raised>>
         [] OTHER ->
              /\ phase' = "teardown_raised"
              /\ raised' = Raise(out, utils[idx], "teardown")
              /\ UNCHANGED <<idx, errors>>
    /\ UNCHANGED <<o, utils>>

\* After the loop: "if errors: raise Exception(errors)", else return.
TeardownEnd ==
    /\ phase = "teardown"
    /\ idx > Len(utils)
    /\ IF errors # <<>>
       THEN /\ phase' = "teardown_raised"
            /\ raised' = [kind |-> "Exception", by |-> 0, op |-> "aggregate",
                          args |-> errors]
       ELSE /\ phase' = "done"
            /\ UNCHANGED raised
    /\ UNCHANGED <<o, utils, idx, errors, calls>>

\* The objects: attribute names 1..MaxAttr, each either a MultihostUtility
\* or something else, assigned in any order.
Objects ==
    {s \in InjSeqs([name : 1..MaxAttr, utility : BOOLEAN], MaxAttr) :
        \A i, j \in DOMAIN s : i # j => s[i].name # s[j].name}

CascadeIdle ==
    /\ o = <<>>
    /\ phase = "unused"
    /\ utils = <<>>
    /\ idx = 1
    /\ errors = <<>>
    /\ raised = NoException
    /\ calls = <<>>

----------------------------------------------------------------------------
(***************************************************************************)
(* Python values of a configuration document.                              *)
(*                                                                         *)
(* A str is a sequence of tokens: a token is one of the separators "/" and *)
(* "." or a run of other characters, so "config/binddn" is                 *)
(* <<"config", "/", "binddn">> and "" is <<>>.  A dict is a function from  *)
(* keys (strs) to values; a key that is absent is outside its domain.      *)
(***************************************************************************)

VNone == [t |-> "NoneType"]
VStr(s) == [t |-> "str", s |-> s]
VDict(m) == [t |-> "dict", m |-> m]

\* A str of one token.
K(name) == <<name>>

\* bool(v)
Truthy(v) ==
    CASE v.t = "NoneType" -> FALSE
      [] v.t = "str" -> v.s # <<>>
      [] v.t = "dict" -> DOMAIN v.m # {}
      [] OTHER -> TRUE

\* d.get(key, default) of a dict d
DictGet(d, key, default) == IF key \in DOMAIN d.m THEN d.m[key] ELSE default

\* sub in s, for two strs
IsSubstr(sub, s) ==
    \E i \in 0..(Len(s) - Len(sub)) : SubSeq(s, i + 1, i + Len(sub)) = sub

\* Index of the first token sep in s (0: none).
FirstIndex(s, sep) ==
    IF \E i \in DOMAIN s : s[i] = sep
    THEN CHOOSE i \in DOMAIN s : s[i] = sep /\ \A j \in 1..(i - 1) : s[j] # sep
    ELSE 0

----------------------------------------------------------------------------
(***************************************************************************)
(* MultihostHost.__init__: validation of the required fields.              *)
(***************************************************************************)

\* MultihostHost.required_fields
required_fields == <<K("hostname"), K("role"), K("username"), K("password")>>

\* Mutant: a field is present when its key is, whatever its value.
RECURSIVE is_present_KeyOnly(_, _)
is_present_KeyOnly(property, conf) ==
    IF FirstIndex(property, "/") # 0
    THEN LET i == FirstIndex(property, "/")
             key == SubSeq(property, 1, i - 1)
             subpath == SubSeq(property, i + 1, Len(property))
         IN  IF conf.t # "dict" THEN "AttributeError"
             ELSE IF key \notin DOMAIN conf.m THEN "False"
             ELSE is_present_KeyOnly(subpath, conf.m[key])
    ELSE CASE conf.t = "dict" ->
                  IF property \in DOMAIN conf.m THEN "True" ELSE "False"
           [] conf.t = "str" ->
                  IF IsSubstr(property, conf.s) THEN "TypeError" ELSE "False"
           [] OTHER -> "TypeError"

\* is_present(property, confdict), the local function of __init__.  The
\* result is "True" or "False" (the truth value of what it returns), or the
\* exception it raises when it descends into a value that is not a dict:
\*   - conf.get(key) on a str: AttributeError;
\*   - property in conf on a str is a substring test, and conf[property]
\*     after it: TypeError.
\* Only "/" splits a property; split("/", maxsplit=1) cuts at the first one.
RECURSIVE is_present(_, _)
is_present(property, conf) ==
    IF FirstIndex(property, "/") # 0
    THEN LET i == FirstIndex(property, "/")
             key == SubSeq(property, 1, i - 1)
             subpath == SubSeq(property, i + 1, Len(property))
         IN  IF conf.t # "dict" THEN "AttributeError"
             ELSE IF ~Truthy(DictGet(conf, key, VNone)) THEN "False"
             ELSE is_present(subpath, conf.m[key])
    ELSE CASE conf.t = "dict" ->
                  IF property \in DOMAIN conf.m /\ Truthy(conf.m[property])
                  THEN "True" ELSE "False"
           [] conf.t = "str" ->
                  IF IsSubstr(property, conf.s) THEN "TypeError" ELSE "False"
           [] OTHER -> "TypeError"

NoError == [type |-> "None", what |-> <<>>]
Pending == [type |-> "pending", what |-> <<>>]
Error(type, what) == [type |-> type, what |-> what]

\* "for required in self.required_fields: if not is_present(...): raise
\* ValueError": the error of the first field that fails, NoError if none.
RECURSIVE ValidateRequired(_, _)
ValidateRequired(req, conf) ==
    IF req = <<>> THEN NoError
    ELSE LET r == is_present(Head(req), conf)
         IN  CASE r = "True" -> ValidateRequired(Tail(req), conf)
               [] r = "False" -> Error("ValueError", Head(req))
               [] OTHER -> Error(r, Head(req))

\* The validation loop of MultihostHost.__init__ on the host's document.
Validate ==
    /\ validation = Pending
    /\ validation' = ValidateRequired(required, confdict)
    /\ UNCHANGED <<required, confdict>>

\* Required-field names a subtype can declare: up to MaxSegments names
\* joined by "/" or ".".
RECURSIVE PathsOf(_)
PathsOf(n) ==
    IF n = 1 THEN {K("config"), K("binddn")}
    ELSE {p \o <<sep, name>> :
             p \in PathsOf(n - 1), sep \in {"/", "."}, name \in {"config", "binddn"}}

Paths == UNION {PathsOf(n) : n \in 1..MaxSegments}

\* dicts with keys among keys and values among values
DictsOver(keys, values) ==
    {VDict(m) : m \in UNION {[ks -> values] : ks \in SUBSET keys}}

\* The documents: hostname missing, None or set, the other base fields set;
\* "config" and the literal key "config.binddn" missing or set to a scalar;
\* "config" also a dict, nested up to three levels.
LeafValues == {VNone, VStr(K("x")), VStr(K("binddn"))}
Level3 == DictsOver({K("binddn")}, LeafValues)
Level2 == DictsOver({K("binddn"), K("config")}, LeafValues \cup Level3)
BaseFields ==
    {[k \in {K("role"), K("username"), K("password")} |-> VStr(K("v"))]}
WithKey(m, key, values) ==
    {m} \cup {[k \in DOMAIN m \cup {key} |-> IF k = key THEN v ELSE m[k]] :
                 v \in values}
PresentDocs ==
    {VDict(m3) :
        m3 \in UNION {WithKey(m2, K("config"), LeafValues \cup Level2) :
            m2 \in UNION {WithKey(m1, <<"config", ".", "binddn">>, LeafValues) :
                m1 \in UNION {WithKey(m0, K("hostname"), {VNone, VStr(K("h1"))}) :
                    m0 \in BaseFields}}}}

PresentIdle ==
    /\ required = <<>>
    /\ confdict = VNone
    /\ validation = NoError

----------------------------------------------------------------------------
(***************************************************************************)
(* MultihostHost.__init__ after validation, MultihostDomain, and           *)
(* MultihostConfig.                                                        *)
(*                                                                         *)
(* The configuration document is an input that is read once, front to      *)
(* back: each step receives the part of it the code reads in that step (the*)
(* top-level dict, the next domain entry, the next host entry), and a list *)
(* is handed over as an iterator that says whether it has a next element.  *)
(***************************************************************************)

\* A list being iterated: more says whether it has (still) an element.
VList(more) == [t |-> "list", more |-> more]

\* str(v)
Str(v) == IF v.t = "str" THEN v.s ELSE K("None")

\* s.lower(), on the tokens that occur as "os" values
LowerToken(tok) ==
    CASE tok = "Linux" -> "linux"
      [] tok = "None" -> "none"
      [] OTHER -> tok
Lower(s) == [i \in DOMAIN s |-> LowerToken(s[i])]

\* MultihostHostOS(value): the member with that value, "ValueError" if none.
MultihostHostOS(value) ==
    CASE value = K("linux") -> "Linux"
      [] value = K("windows") -> "Windows"
      [] OTHER -> "ValueError"

\* The match statement on self.os.
ShellOf(os) ==
    CASE os = "Linux" -> "SSHBashProcess"
      [] os = "Windows" -> "SSHPowerShellProcess"
      [] OTHER -> "ValueError"

\* MultihostHost._get_ssh_host: ip if set, else hostname.
get_ssh_host(ip, hostname) == IF ip # <<>> THEN ip ELSE hostname

\* SSHClient(host, user, password, logger, shell): a new, unconnected client.
SSHClient(host, shell) == [host |-> host, shell |-> shell, connects |-> 0]

\* SSHClient.connect() was called on the client.
connect(ssh) == [ssh EXCEPT !.connects = @ + 1]

NoHost ==
    [cls |-> "None", hostname |-> <<>>, role |-> <<>>, os |-> "", shell |-> "",
     ssh |-> 0]

\* Mutant: the SSH client is created before the operating system is checked.
HostInit_SessionFirst(cls, entry, lazy, connOk, sid) ==
    LET invalid == ValidateRequired(required_fields, entry)
        hostname == entry.m[K("hostname")].s
        ip == IF K("ip") \in DOMAIN entry.m THEN entry.m[K("ip")].s ELSE <<>>
        os == MultihostHostOS(Lower(Str(DictGet(entry, K("os"), VStr(K("linux"))))))
        ssh == SSHClient(get_ssh_host(ip, hostname), "SSHBashProcess")
    IN  IF invalid # NoError
        THEN [error |-> invalid, host |-> NoHost, opened |-> <<>>]
        ELSE IF os = "ValueError"
        THEN [error |-> Error("ValueError", K("os")), host |-> NoHost,
              opened |-> <<ssh>>]
        ELSE [error |-> NoError,
              host |-> [cls |-> cls, hostname |-> hostname,
                        role |-> entry.m[K("role")].s, os |-> os,
                        shell |-> ShellOf(os), ssh |-> sid],
              opened |-> <<IF lazy THEN [ssh EXCEPT !.shell = ShellOf(os)]
                           ELSE connect([ssh EXCEPT !.shell = ShellOf(os)])>>]

\* Mutant: the host connects whatever lazy_ssh says.
HostInit_AlwaysConnect(cls, entry, lazy, connOk, sid) ==
    LET invalid == ValidateRequired(required_fields, entry)
        hostname == entry.m[K("hostname")].s
        ip == IF K("ip") \in DOMAIN entry.m THEN entry.m[K("ip")].s ELSE <<>>
        os == MultihostHostOS(Lower(Str(DictGet(entry, K("os"), VStr(K("linux"))))))
        ssh == SSHClient(get_ssh_host(ip, hostname), ShellOf(os))
    IN  IF invalid # NoError
        THEN [error |-> invalid, host |-> NoHost, opened |-> <<>>]
        ELSE IF os = "ValueError"
        THEN [error |-> Error("ValueError", K("os")), host |-> NoHost,
              opened |-> <<>>]
        ELSE [error |-> NoError,
              host |-> [cls |-> cls, hostname |-> hostname,
                        role |-> entry.m[K("role")].s, os |-> os,
                        shell |-> ShellOf(os), ssh |-> sid],
              opened |-> <<connect(ssh)>>]

\* MultihostHost.__init__(domain, confdict) for class cls.  sid is the
\* identity the SSHClient gets if one is created; connOk says whether
\* ssh.connect() returns (it raises otherwise).  The result is the error
\* raised (NoError: none), the host object, and the SSH clients created.
\*   1. required fields, in order: ValueError for the first one not present;
\*   2. os = str(confdict.get("os", "linux")).lower(); MultihostHostOS(os)
\*      or ValueError; the shell follows from the match on self.os;
\*   3. self.ssh = SSHClient(host, user, password, logger, shell);
\*   4. unless domain.config.lazy_ssh: self.ssh.connect().
HostInit(cls, entry, lazy, connOk, sid) ==
    LET invalid == ValidateRequired(required_fields, entry)
        hostname == entry.m[K("hostname")].s
        ip == IF K("ip") \in DOMAIN entry.m THEN entry.m[K("ip")].s ELSE <<>>
        os == MultihostHostOS(Lower(Str(DictGet(entry, K("os"), VStr(K("linux"))))))
        ssh == SSHClient(get_ssh_host(ip, hostname), ShellOf(os))
    IN  IF invalid # NoError
        THEN [error |-> invalid, host |-> NoHost, opened |-> <<>>]
        ELSE IF os = "ValueError"
        THEN [error |-> Error("ValueError", K("os")), host |-> NoHost,
              opened |-> <<>>]
        ELSE IF lazy
        THEN [error |-> NoError,
              host |-> [cls |-> cls, hostname |-> hostname,
                        role |-> entry.m[K("role")].s, os |-> os,
                        shell |-> ShellOf(os), ssh |-> sid],
              opened |-> <<ssh>>]
        ELSE IF connOk
        THEN [error |-> NoError,
              host |-> [cls |-> cls, hostname |-> hostname,
                        role |-> entry.m[K("role")].s, os |-> os,
                        shell |-> ShellOf(os), ssh |-> sid],
              opened |-> <<connect(ssh)>>]
        ELSE [error |-> Error("SSHError", K("connect")), host |-> NoHost,
              opened |-> <<connect(ssh)>>]

\* The roles of the documents, and the deployment's domain class: it maps
\* role a to a host class and to a role class; role b is in neither map.
RoleNames == {K("a"), K("b")}
role_to_host_type == {K("a")}
role_to_role_type == {K("a")}

\* MultihostDomain.create_host(confdict): a blank or missing role is a
\* ValueError; the class is the one mapped to the role, MultihostHost if the
\* role is not mapped.
create_host(entry, lazy, connOk, sid) ==
    IF ~Truthy(DictGet(entry, K("role"), VNone))
    THEN [error |-> Error("ValueError", K("role")), host |-> NoHost,
          opened |-> <<>>]
    ELSE HostInit(IF entry.m[K("role")].s \in role_to_host_type
                  THEN "HostSubtype" ELSE "MultihostHost",
                  entry, lazy, connOk, sid)

\* MultihostDomain.hosts_by_role(role)
hosts_by_role(domain, role) == SelectSeq(domain.hosts, LAMBDA x : x.role = role)

NoDomain == [type |-> VNone, hosts |-> <<>>]

\* What a part of the document contributes to "seen".
MissingKeys(doc, keys) == \E k \in keys : k \notin DOMAIN doc.m
BlankKeys(doc, keys) == \E k \in keys : k \in DOMAIN doc.m /\ ~Truthy(doc.m[k])
Absent == [t |-> "absent"]
Unread == [t |-> "unread"]
Read(kind, doc, keys) ==
    /\ lastOs' = IF kind = "host" THEN DictGet(doc, K("os"), Absent) ELSE Unread
    /\ seen' = [missing |-> seen.missing \/ MissingKeys(doc, keys),
                blankHost |-> seen.blankHost \/ (kind = "host" /\ BlankKeys(doc, keys)),
                blankUpper |-> seen.blankUpper \/ (kind # "host" /\ BlankKeys(doc, keys))]

\* The hosts constructed so far.
RECURSIVE AllHosts(_)
AllHosts(ds) == IF ds = <<>> THEN <<>> ELSE Head(ds).hosts \o AllHosts(Tail(ds))
TotalHosts == Len(AllHosts(domains)) + Len(cur.hosts)

Fail(err) ==
    /\ cfg_pc' = "failed"
    /\ error' = err

\* Mutant: a document without "domains" is a configuration without domains.
ConfigInit_NoCheck(lazy, top) ==
    /\ cfg_pc = "start"
    /\ lazy_ssh' = lazy
    /\ domains' = <<>>
    /\ Read("top", top, {K("domains")})
    /\ IF K("domains") \in DOMAIN top.m /\ top.m[K("domains")].t # "list"
       THEN Fail(Error("TypeError", K("domains"))) /\ UNCHANGED domIter
       ELSE /\ cfg_pc' = "domains"
            /\ domIter' = (K("domains") \in DOMAIN top.m /\ top.m[K("domains")].more)
            /\ UNCHANGED error
    /\ UNCHANGED <<cur, sessions, hostIter, built,
                   roleObjs, lastRole>>

\* MultihostConfig.__init__(confdict, logger=..., lazy_ssh=lazy) up to the
\* loop over confdict["domains"]: ValueError if the key is missing; iterating
\* a value that is not iterable (None) is a TypeError.
ConfigInit(lazy, top) ==
    /\ cfg_pc = "start"
    /\ lazy_ssh' = lazy
    /\ domains' = <<>>
    /\ Read("top", top, {K("domains")})
    /\ IF K("domains") \notin DOMAIN top.m
       THEN Fail(Error("ValueError", K("domains"))) /\ UNCHANGED domIter
       ELSE IF top.m[K("domains")].t # "list"
       THEN Fail(Error("TypeError", K("domains"))) /\ UNCHANGED domIter
       ELSE /\ cfg_pc' = "domains"
            /\ domIter' = top.m[K("domains")].more
            /\ UNCHANGED error
    /\ UNCHANGED <<cur, sessions, hostIter, built,
                   roleObjs, lastRole>>

\* The next element of confdict["domains"]: create_domain(domain), which a
\* deployment implements by constructing its MultihostDomain subclass, so
\* MultihostDomain.__init__ runs up to its loop over confdict["hosts"].
\* more says whether the list of domains has a further element.
CreateDomain(entry, more) ==
    /\ cfg_pc = "domains"
    /\ domIter
    /\ Len(domains) < MaxDomains
    /\ more => Len(domains) + 1 < MaxDomains
    /\ domIter' = more
    /\ Read("domain", entry, {K("type"), K("hosts")})
    /\ IF K("type") \notin DOMAIN entry.m
       THEN Fail(Error("ValueError", K("type"))) /\ UNCHANGED <<cur, hostIter>>
       ELSE IF K("hosts") \notin DOMAIN entry.m
       THEN Fail(Error("ValueError", K("hosts"))) /\ UNCHANGED <<cur, hostIter>>
       ELSE IF entry.m[K("hosts")].t # "list"
       THEN /\ Fail(Error("TypeError", K("hosts")))
            /\ cur' = [type |-> entry.m[K("type")], hosts |-> <<>>]
            /\ UNCHANGED hostIter
       ELSE /\ entry.m[K("hosts")].more => TotalHosts < MaxHosts
            /\ cur' = [type |-> entry.m[K("type")], hosts |-> <<>>]
            /\ cfg_pc' = "hosts"
            /\ hostIter' = entry.m[K("hosts")].more
            /\ UNCHANGED error
    /\ UNCHANGED <<lazy_ssh, domains,
                   sessions, built, roleObjs, lastRole>>

\* Mutant: a host that cannot be constructed is skipped.
CreateHost_Skip(entry, connOk, more) ==
    /\ cfg_pc = "hosts"
    /\ hostIter
    /\ TotalHosts < MaxHosts
    /\ more => TotalHosts + 1 < MaxHosts
    /\ hostIter' = more
    /\ Read("host", entry, Range(required_fields))
    /\ LET r == create_host(entry, lazy_ssh, connOk, Len(sessions) + 1)
       IN  /\ sessions' = sessions \o r.opened
           /\ cur' = IF r.error = NoError
                     THEN [cur EXCEPT !.hosts = Append(@, r.host)] ELSE cur
           /\ UNCHANGED <<cfg_pc, error>>
    /\ UNCHANGED <<lazy_ssh, domains, domIter, built, roleObjs, lastRole>>

\* The next element of the domain's confdict["hosts"]:
\* self.hosts.append(self.create_host(host)).
CreateHost(entry, connOk, more) ==
    /\ cfg_pc = "hosts"
    /\ hostIter
    /\ TotalHosts < MaxHosts
    /\ more => TotalHosts + 1 < MaxHosts
    /\ hostIter' = more
    /\ Read("host", entry, Range(required_fields))
    /\ LET r == create_host(entry, lazy_ssh, connOk, Len(sessions) + 1)
       IN  /\ sessions' = sessions \o r.opened
           /\ IF r.error = NoError
              THEN /\ cur' = [cur EXCEPT !.hosts = Append(@, r.host)]
                   /\ UNCHANGED <<cfg_pc, error>>
              ELSE /\ Fail(r.error)
                   /\ UNCHANGED cur
    /\ UNCHANGED <<lazy_ssh, domains,
                   domIter, built, roleObjs, lastRole>>

\* The loop over confdict["hosts"] is exhausted: MultihostDomain.__init__
\* and create_domain return, and the domain is appended to self.domains.
EndHosts ==
    /\ cfg_pc = "hosts"
    /\ ~hostIter
    /\ domains' = Append(domains, cur)
    /\ cur' = NoDomain
    /\ cfg_pc' = "domains"
    /\ UNCHANGED <<lazy_ssh, sessions, domIter, hostIter, error, lastOs, seen,
                   built, roleObjs, lastRole>>

\* The loop over confdict["domains"] is exhausted: __init__ returns.
EndDomains ==
    /\ cfg_pc = "domains"
    /\ ~domIter
    /\ cfg_pc' = "returned"
    /\ built' = domains
    /\ UNCHANGED <<lazy_ssh, domains, cur, sessions, domIter, hostIter, error,
                   lastOs, seen, roleObjs, lastRole>>

NoRoleCall == [host |-> <<0, 0>>, error |-> NoError, n |-> 0]

\* Mutant: a role without a role class gets the generic MultihostRole.
CreateRole_Fallback(d, h) ==
    /\ cfg_pc = "returned"
    /\ lastRole.n < MaxRoleCalls
    /\ d \in DOMAIN domains
    /\ h \in DOMAIN domains[d].hosts
    /\ roleObjs' = Append(roleObjs,
                       [cls |-> IF domains[d].hosts[h].role \in role_to_role_type
                                THEN "RoleSubtype" ELSE "MultihostRole",
                        role |-> domains[d].hosts[h].role, host |-> <<d, h>>])
    /\ lastRole' = [host |-> <<d, h>>, error |-> NoError,
                    n |-> lastRole.n + 1]
    /\ UNCHANGED <<lazy_ssh, domains, cur, sessions, cfg_pc, domIter, hostIter,
                   error, lastOs, seen, built>>

\* domains[d].create_role(mh, host) for the h-th host of the d-th domain:
\* ValueError if host.role is not mapped, else cls(mh, host.role, host).
CreateRole(d, h) ==
    /\ cfg_pc = "returned"
    /\ lastRole.n < MaxRoleCalls
    /\ d \in DOMAIN domains
    /\ h \in DOMAIN domains[d].hosts
    /\ IF domains[d].hosts[h].role \notin role_to_role_type
       THEN /\ lastRole' = [host |-> <<d, h>>,
                            error |-> Error("ValueError", domains[d].hosts[h].role),
                            n |-> lastRole.n + 1]
            /\ UNCHANGED roleObjs
       ELSE /\ roleObjs' = Append(roleObjs,
                               [cls |-> "RoleSubtype",
                                role |-> domains[d].hosts[h].role,
                                host |-> <<d, h>>])
            /\ lastRole' = [host |-> <<d, h>>, error |-> NoError,
                            n |-> lastRole.n + 1]
    /\ UNCHANGED <<lazy_ssh, domains, cur, sessions, cfg_pc, domIter, hostIter,
                   error, lastOs, seen, built>>

\* The documents' parts.

\* dicts whose keys are among DOMAIN choice, key k with a value of choice[k]
OptDicts(choice) ==
    {VDict(m) :
        m \in UNION {{f \in [ks -> UNION {choice[k] : k \in ks}] :
                         \A k \in ks : f[k] \in choice[k]} :
                     ks \in SUBSET DOMAIN choice}}

\* "domains": missing, None, or a list (empty or not).
TopDocs == OptDicts(K("domains") :> {VNone, VList(FALSE), VList(TRUE)})

\* "type": missing, "" or a name; "hosts": missing, None, or a list.
DomainDocs ==
    OptDicts(K("type") :> {VStr(<<>>), VStr(K("x"))} @@
             K("hosts") :> {VNone, VList(FALSE), VList(TRUE)})

\* A host entry: each required field missing, None or set, at most one of
\* them not set; "os" missing, None, or a str.
HostDocs ==
    {d \in OptDicts(K("hostname") :> {VNone, VStr(K("h1"))} @@
                    K("role") :> ({VNone} \cup {VStr(r) : r \in RoleNames}) @@
                    K("username") :> {VNone, VStr(K("u"))} @@
                    K("password") :> {VNone, VStr(K("p"))} @@
                    K("os") :> {VNone, VStr(K("linux")), VStr(K("Linux")),
                                VStr(K("windows")), VStr(K("bogus"))}) :
        Cardinality({k \in Range(required_fields) :
                        ~Truthy(DictGet(d, k, VNone))}) <= 1}

\* The host entries that pass validation and the os check (for the others
\* neither ssh.connect() nor the rest of the list matters).
ValidHostDocs ==
    {d \in HostDocs : create_host(d, TRUE, TRUE, 1).error = NoError}

ConfigIdle ==
    /\ lazy_ssh = FALSE
    /\ domains = <<>>
    /\ cur = NoDomain
    /\ sessions = <<>>
    /\ cfg_pc = "unused"
    /\ domIter = FALSE
    /\ hostIter = FALSE
    /\ error = NoError
    /\ lastOs = Unread
    /\ built = <<>>
    /\ seen = [missing |-> FALSE, blankHost |-> FALSE, blankUpper |-> FALSE]
    /\ roleObjs = <<>>
    /\ lastRole = NoRoleCall

----------------------------------------------------------------------------
(***************************************************************************)
(* MultihostHost.collect_artifacts.  Each call that reaches outside the    *)
(* process (Path.mkdir, ssh.run, open/write) is a step of its own, with    *)
(* the outcomes the callee can have.                                       *)
(***************************************************************************)

\* The shell script of the Linux branch: one compgen -G per pattern.
LinuxCommand(artifacts) ==
    <<[cmd |-> "mktemp", arg |-> <<>>]>>
    \o <<[cmd |-> "tar", arg |-> <<>>]>>
    \o [i \in DOMAIN artifacts |-> [cmd |-> "compgen", arg |-> artifacts[i]]]
    \o <<[cmd |-> "base64", arg |-> <<>>], [cmd |-> "rm", arg |-> <<>>]>>

\* f"{dest}/{self.role}_{self.hostname}.{ext}"
ArchivePath(d, role, hostname, ext) ==
    d \o <<"/">> \o role \o <<"_">> \o hostname \o <<".">> \o <<ext>>

NoCommand == <<>>

ArtFail(err) ==
    /\ art_pc' = "failed"
    /\ art_error' = err

\* if not self.artifacts: return
CollectArtifacts ==
    /\ art_pc = "start"
    /\ art_pc' = IF self.artifacts = <<>> THEN "returned" ELSE "mkdir"
    /\ UNCHANGED <<self, dest, command, io, art_error>>

\* Path(dest).mkdir(parents=True, exist_ok=True)
Mkdir(ok) ==
    /\ art_pc = "mkdir"
    /\ io' = Append(io, [op |-> "mkdir", what |-> dest])
    /\ IF ok
       THEN art_pc' = "match" /\ UNCHANGED art_error
       ELSE ArtFail(Error("OSError", K("mkdir")))
    /\ UNCHANGED <<self, dest, command>>

\* Mutant: the Windows case falls through to the remote command.
MatchOs_WindowsRuns ==
    /\ art_pc = "match"
    /\ command' = LinuxCommand(self.artifacts)
    /\ art_pc' = "run"
    /\ UNCHANGED <<self, dest, io, art_error>>

\* match self.os
MatchOs ==
    /\ art_pc = "match"
    /\ CASE self.os = "Linux" ->
                /\ command' = LinuxCommand(self.artifacts)
                /\ art_pc' = "run"
                /\ UNCHANGED art_error
         [] self.os = "Windows" ->
                /\ ArtFail(Error("NotImplementedError", K("Windows")))
                /\ UNCHANGED command
         [] OTHER ->
                /\ ArtFail(Error("ValueError", K("os")))
                /\ UNCHANGED command
    /\ UNCHANGED <<self, dest, io>>

\* result = self.ssh.run(command, log_level=SSHLog.Error)
SshRun(ok) ==
    /\ art_pc = "run"
    /\ io' = Append(io, [op |-> "run", what |-> command])
    /\ IF ok
       THEN art_pc' = "write" /\ UNCHANGED art_error
       ELSE ArtFail(Error("SSHError", K("run")))
    /\ UNCHANGED <<self, dest, command>>

WriteOutcomes == {"ok", "OSError", "binascii.Error"}

\* with open(..., "wb") as f: f.write(b64decode(result.stdout))
WriteArchive(out) ==
    /\ art_pc = "write"
    /\ io' = Append(io, [op |-> "write",
                         what |-> ArchivePath(dest, self.role, self.hostname,
                                              "tgz")])
    /\ IF out = "ok"
       THEN art_pc' = "returned" /\ UNCHANGED art_error
       ELSE ArtFail(Error(out, K("write")))
    /\ UNCHANGED <<self, dest, command>>

\* The artifact lists: up to MaxArtifacts glob patterns.
ArtifactLists ==
    UNION {[1..n -> {K("p"), K("q")}] : n \in 0..MaxArtifacts}

\* The hosts collect_artifacts is called on.
ArtifactHosts ==
    [os : {"Linux", "Windows"}, artifacts : ArtifactLists,
     role : RoleNames, hostname : {K("h1"), K("h2")}]

Destinations == {K("out"), <<"out", "/", "t1">>}

ArtifactsIdle ==
    /\ self = [os |-> "", artifacts |-> <<>>, role |-> <<>>, hostname |-> <<>>]
    /\ dest = <<>>
    /\ art_pc = "unused"
    /\ command = NoCommand
    /\ io = <<>>
    /\ art_error = NoError

----------------------------------------------------------------------------
(***************************************************************************)
(* Specifications.                                                         *)
(***************************************************************************)

\* A role object with its attributes; setup() and teardown() are called on it.
InitCascade ==
    /\ o \in Objects
    /\ phase = "new"
    /\ utils = <<>>
    /\ idx = 1
    /\ errors = <<>>
    /\ raised = NoException
    /\ calls = <<>>
    /\ PresentIdle
    /\ ConfigIdle
    /\ ArtifactsIdle

NextCascade ==
    /\ \/ RoleSetup
       \/ \E out \in CallOutcomes : SetupCall(out)
       \/ SetupReturn
       \/ RoleTeardown
       \/ \E out \in CallOutcomes : TeardownCall(out)
       \/ TeardownEnd
    /\ UNCHANGED <<presentVars, configVars, artifactVars>>

SpecCascade == InitCascade /\ [][NextCascade]_vars

\* A host of a subtype that declares one more required field, and a
\* document; the constructor validates it.
InitPresent ==
    /\ \E p \in Paths : required = required_fields \o <<p>>
    /\ confdict \in PresentDocs
    /\ validation = Pending
    /\ CascadeIdle
    /\ ConfigIdle
    /\ ArtifactsIdle

NextPresent ==
    /\ Validate
    /\ UNCHANGED <<cascadeVars, configVars, artifactVars>>

SpecPresent == InitPresent /\ [][NextPresent]_vars

\* A configuration is constructed from a document, then roles are created
\* for its hosts.
InitConfig ==
    /\ lazy_ssh = FALSE
    /\ domains = <<>>
    /\ cur = NoDomain
    /\ sessions = <<>>
    /\ cfg_pc = "start"
    /\ domIter = FALSE
    /\ hostIter = FALSE
    /\ error = NoError
    /\ lastOs = Unread
    /\ built = <<>>
    /\ seen = [missing |-> FALSE, blankHost |-> FALSE, blankUpper |-> FALSE]
    /\ roleObjs = <<>>
    /\ lastRole = NoRoleCall
    /\ CascadeIdle
    /\ PresentIdle
    /\ ArtifactsIdle

NextConfig ==
    /\ \/ \E lazy \in BOOLEAN, top \in TopDocs : ConfigInit(lazy, top)
       \/ \E entry \in DomainDocs, more \in BOOLEAN : CreateDomain(entry, more)
       \/ \E entry \in ValidHostDocs, connOk \in BOOLEAN, more \in BOOLEAN :
              CreateHost(entry, connOk, more)
       \/ \E entry \in HostDocs \ ValidHostDocs : CreateHost(entry, TRUE, FALSE)
       \/ EndHosts
       \/ EndDomains
       \/ \E d \in 1..MaxDomains, h \in 1..MaxHosts : CreateRole(d, h)
    /\ UNCHANGED <<cascadeVars, presentVars, artifactVars>>

SpecConfig == InitConfig /\ [][NextConfig]_vars

\* collect_artifacts is called on a host with a destination directory.
InitArtifacts ==
    /\ self \in ArtifactHosts
    /\ dest \in Destinations
    /\ art_pc = "start"
    /\ command = NoCommand
    /\ io = <<>>
    /\ art_error = NoError
    /\ CascadeIdle
    /\ PresentIdle
    /\ ConfigIdle

NextArtifacts ==
    /\ \/ CollectArtifacts
       \/ \E ok \in BOOLEAN : Mkdir(ok)
       \/ MatchOs
       \/ \E ok \in BOOLEAN : SshRun(ok)
       \/ \E out \in WriteOutcomes : WriteArchive(out)
    /\ UNCHANGED <<cascadeVars, presentVars, configVars>>

SpecArtifacts == InitArtifacts /\ [][NextArtifacts]_vars

----------------------------------------------------------------------------
(***************************************************************************)
(* Properties of the cascades (checked under SpecCascade).                 *)
(***************************************************************************)

\* The names of the attributes of o that are utilities.
UtilityNames == {o[i].name : i \in {j \in DOMAIN o : o[j].utility}}

SetupLog == SelectSeq(calls, LAMBDA c : c.op = "setup")
TeardownLog == SelectSeq(calls, LAMBDA c : c.op = "teardown")
UtilsOf(log) == [i \in DOMAIN log |-> log[i].util]

Ascending(s) == \A i, j \in DOMAIN s : i < j => s[i] < s[j]

\* s lists every element of S exactly once, in name order.
ListsAllInOrder(s, S) == Range(s) = S /\ Ascending(s)

\* s lists the first Len(s) elements of S (in name order), each once.
ListsPrefixInOrder(s, S) ==
    /\ Range(s) \subseteq S
    /\ Ascending(s)
    /\ \A x \in S \ Range(s) : \A y \in Range(s) : y < x

SetupRaisedBefore == \E i \in DOMAIN SetupLog : SetupLog[i].out # "ok"

\* The teardown cascade ran its loop to the end (returned, or raised the
\* aggregate).
TeardownLoopCompleted ==
    \/ phase = "done"
    \/ phase = "teardown_raised" /\ raised.op = "aggregate"

\* The exceptions raised by the teardown() calls that are instances of
\* Exception, in the order they were raised.
TeardownFailures ==
    LET f == SelectSeq(TeardownLog, LAMBDA c : c.out = "Exception")
    IN  [i \in DOMAIN f |-> Raise("Exception", f[i].util, "teardown")]

\* C1 (as amended): teardown failures that are instances of Exception never
\* stop the loop: when the cascade ends without a BaseException escaping,
\* teardown() was called exactly once on every discovered utility; it returns
\* normally iff no teardown() raised, and otherwise raises one Exception
\* whose argument is the list of the original exception objects, in
\* discovery (name) order.  A teardown() raising a BaseException that is not
\* an Exception is not caught: it is the last call and it propagates as is.
C1_TeardownAggregates ==
    /\ TeardownLoopCompleted =>
          /\ ListsAllInOrder(UtilsOf(TeardownLog), UtilityNames)
          /\ \A i \in DOMAIN TeardownLog : TeardownLog[i].out # "BaseException"
    /\ phase = "done" => TeardownFailures = <<>>
    /\ (phase = "teardown_raised" /\ raised.op = "aggregate") =>
          /\ TeardownFailures # <<>>
          /\ raised.kind = "Exception"
          /\ raised.args = TeardownFailures
          /\ Ascending([i \in DOMAIN raised.args |-> raised.args[i].by])
    /\ (phase = "teardown_raised" /\ raised.op # "aggregate") =>
          /\ TeardownLog # <<>>
          /\ TeardownLog[Len(TeardownLog)].out = "BaseException"
          /\ raised = Raise("BaseException", TeardownLog[Len(TeardownLog)].util,
                            "teardown")
    /\ \A i \in DOMAIN TeardownLog :
          TeardownLog[i].out = "BaseException" => i = Len(TeardownLog)

\* C1 witness: three utilities assigned out of name order, two of them fail
\* in teardown, and the aggregate carries the two exceptions.
C1_Witness ==
    /\ phase = "teardown_raised"
    /\ raised.op = "aggregate"
    /\ Cardinality(UtilityNames) = 3
    /\ Len(raised.args) = 2
    /\ raised.args[1].by = 1
    /\ raised.args[2].by = 3
    /\ o[1].name = 3

\* C1 as stated: whichever way teardown() fails, the cascade ends with every
\* discovered utility torn down exactly once, returning or raising the
\* aggregate.
C1_Original ==
    phase \in {"done", "teardown_raised"} =>
        /\ ListsAllInOrder(UtilsOf(TeardownLog), UtilityNames)
        /\ phase = "teardown_raised" => raised.op = "aggregate"

\* C2: setup is fail-fast and ordered: the utilities are set up one at a time
\* in name order; a setup() that raises is the last one called and its
\* exception is what the cascade raises; if none raises, every utility was
\* set up exactly once.
C2_SetupFailFastOrdered ==
    /\ ListsPrefixInOrder(UtilsOf(SetupLog), UtilityNames)
    /\ \A i \in DOMAIN SetupLog : SetupLog[i].out # "ok" => i = Len(SetupLog)
    /\ phase = "setup_raised" =>
          /\ SetupRaisedBefore
          /\ raised = Raise(SetupLog[Len(SetupLog)].out,
                            SetupLog[Len(SetupLog)].util, "setup")
    /\ SetupRaisedBefore => phase \notin {"setup", "ready"}
    /\ phase = "ready" => ListsAllInOrder(UtilsOf(SetupLog), UtilityNames)

\* C2 witness: of three utilities assigned out of name order, the second in
\* name order raises in setup.
C2_Witness ==
    /\ phase = "setup_raised"
    /\ Cardinality(UtilityNames) = 3
    /\ Len(SetupLog) = 2
    /\ raised.by = 2
    /\ o[1].name = 2

\* C9 (as amended): teardown does not track setup.  Whatever setup did, the
\* teardown cascade iterates over every discovered utility in name order (the
\* order of setup, not its reverse), and it calls teardown() on all of them
\* unless a teardown() raises a BaseException that is not an Exception.
C9_TeardownIgnoresSetup ==
    /\ phase = "teardown" => ListsAllInOrder(utils, UtilityNames)
    /\ ListsPrefixInOrder(UtilsOf(TeardownLog), UtilityNames)
    /\ TeardownLoopCompleted =>
          ListsAllInOrder(UtilsOf(TeardownLog), UtilityNames)
    /\ (phase = "teardown_raised" /\ ~TeardownLoopCompleted) =>
          TeardownLog[Len(TeardownLog)].out = "BaseException"

\* C9 witness: setup raised at the first of three utilities, and teardown
\* was still called on all three.
C9_Witness ==
    /\ TeardownLoopCompleted
    /\ Len(SetupLog) = 1
    /\ SetupLog[1].out # "ok"
    /\ Len(TeardownLog) = 3

\* C9 as stated: after a setup that raised, teardown() is always called on
\* all the discovered utilities.
C9_Original ==
    (SetupRaisedBefore /\ phase \in {"done", "teardown_raised"}) =>
        ListsAllInOrder(UtilsOf(TeardownLog), UtilityNames)

----------------------------------------------------------------------------
(***************************************************************************)
(* Properties of the required-field validation (checked under SpecPresent).*)
(***************************************************************************)

\* The segments of a path: s cut at every token of seps.
RECURSIVE SplitAll(_, _)
SplitAll(s, seps) ==
    IF \E i \in DOMAIN s : s[i] \in seps
    THEN LET i == CHOOSE k \in DOMAIN s :
                     s[k] \in seps /\ \A j \in 1..(k - 1) : s[j] \notin seps
         IN  <<SubSeq(s, 1, i - 1)>> \o SplitAll(SubSeq(s, i + 1, Len(s)), seps)
    ELSE <<s>>

\* Every segment names a key that is present with a non-blank value in the
\* document reached so far.
RECURSIVE Resolves(_, _)
Resolves(segs, conf) ==
    /\ conf.t = "dict"
    /\ Head(segs) \in DOMAIN conf.m
    /\ Truthy(conf.m[Head(segs)])
    /\ Len(segs) > 1 => Resolves(Tail(segs), conf.m[Head(segs)])

\* Following the segments through dicts reaches a key that is missing or
\* whose value is blank.
RECURSIVE MissingOrBlankOnPath(_, _)
MissingOrBlankOnPath(segs, conf) ==
    /\ conf.t = "dict"
    /\ \/ Head(segs) \notin DOMAIN conf.m
       \/ ~Truthy(conf.m[Head(segs)])
       \/ Len(segs) > 1 /\ MissingOrBlankOnPath(Tail(segs), conf.m[Head(segs)])

\* The first required field whose path does not resolve (0: all resolve).
FirstUnresolved(seps) ==
    LET bad == {i \in DOMAIN required :
                   ~Resolves(SplitAll(required[i], seps), confdict)}
    IN  IF bad = {} THEN 0 ELSE CHOOSE i \in bad : \A j \in bad : i <= j

\* C4 (as amended): nested lookup is by slash-separated paths only; a "." is
\* part of a key.  Validation passes iff every "/"-segment of every required
\* field resolves to a present, non-blank value; a key missing or blank at
\* any depth makes it fail with a ValueError naming the first such field.
C4_SlashPathLookup ==
    validation # Pending =>
        LET i == FirstUnresolved({"/"})
        IN  /\ validation = NoError <=> i = 0
            /\ i # 0 => validation.what = required[i]
            /\ (i # 0 /\ MissingOrBlankOnPath(SplitAll(required[i], {"/"}), confdict))
                  => validation.type = "ValueError"

\* C4 witness: the subtype's field config/config/binddn is validated against
\* a document nested three levels deep, and validation passes.
C4_Witness ==
    /\ validation = NoError
    /\ required[Len(required)] = <<"config", "/", "config", "/", "binddn">>
    /\ confdict.m[K("config")].m[K("config")].m[K("binddn")] = VStr(K("x"))

\* C4 as stated: both "/" and "." separate the segments of a path.
C4_Original ==
    validation # Pending =>
        (validation = NoError <=> FirstUnresolved({"/", "."}) = 0)

----------------------------------------------------------------------------
(***************************************************************************)
(* Properties of the construction (checked under SpecConfig).              *)
(***************************************************************************)

\* The hosts constructed so far, in the order of their construction.
HostsBuilt == AllHosts(domains) \o cur.hosts

\* C3 (as amended): a required key that is missing at any level, or a host
\* field that is blank, makes construction fail with a ValueError in the very
\* step that reads it; when "domains" is missing nothing has been
\* constructed.  A ValueError has no other cause than such a key or an
\* unsupported os.  (A blank "domains", "type" or "hosts" is not a
\* configuration error.)
C3_MissingKeyFails ==
    /\ (seen.missing \/ seen.blankHost) =>
          (cfg_pc = "failed" /\ error.type = "ValueError")
    /\ error = Error("ValueError", K("domains")) =>
          (domains = <<>> /\ cur = NoDomain /\ sessions = <<>>)
    /\ error.type = "ValueError" =>
          (seen.missing \/ seen.blankHost \/ error.what = K("os"))
    /\ cfg_pc = "failed" <=> error # NoError

\* C3 witness: the second host entry lacks a required field; construction
\* fails with a ValueError after the first host was constructed.
C3_Witness ==
    /\ cfg_pc = "failed"
    /\ seen.missing
    /\ error = Error("ValueError", K("password"))
    /\ Len(HostsBuilt) = 1

\* C3 as stated: a document with a required key missing or blank at any
\* level is never constructed.
C3_Original ==
    (seen.missing \/ seen.blankHost \/ seen.blankUpper) => cfg_pc # "returned"

\* C5: when __init__ returns, every host of every domain has its own
\* SSHClient; connect() was called on it exactly once if lazy_ssh is false
\* and not at all if it is true.
C5_EagerOrLazyConnect ==
    cfg_pc = "returned" =>
        LET hs == AllHosts(domains)
        IN  /\ Len(sessions) = Len(hs)
            /\ \A i \in DOMAIN hs :
                  /\ hs[i].ssh = i
                  /\ sessions[i].connects = IF lazy_ssh THEN 0 ELSE 1

\* C5 witness: eager construction of two domains with one host each.
C5_Witness ==
    /\ cfg_pc = "returned"
    /\ ~lazy_ssh
    /\ Len(domains) = 2
    /\ Len(domains[1].hosts) = 1
    /\ Len(domains[2].hosts) = 1
    /\ sessions[2].connects = 1

\* The os the code works with: str(confdict.get("os", "linux")).lower()
OsName(v) == Lower(Str(IF v = Absent THEN VStr(K("linux")) ELSE v))

\* C6 (as amended): the "os" value is compared after str() and lower().  An
\* entry whose os, so normalised, is neither "linux" nor "windows" fails with
\* a ValueError and no SSHClient is created for it; a host that is
\* constructed has the bash shell iff its os is Linux and the PowerShell
\* shell iff it is Windows (Linux when "os" is absent), and its SSHClient was
\* given that shell.
C6_OsGatesSession ==
    /\ \A i \in DOMAIN HostsBuilt :
          LET h == HostsBuilt[i]
          IN  /\ h.os \in {"Linux", "Windows"}
              /\ h.shell = "SSHBashProcess" <=> h.os = "Linux"
              /\ h.shell = "SSHPowerShellProcess" <=> h.os = "Windows"
              /\ sessions[h.ssh].shell = h.shell
    /\ (lastOs # Unread /\ OsName(lastOs) \notin {K("linux"), K("windows")}) =>
          /\ cfg_pc = "failed"
          /\ error.type = "ValueError"
          /\ Len(sessions) = Len(HostsBuilt)
    /\ (lastOs # Unread /\ cfg_pc # "failed") =>
          /\ HostsBuilt # <<>>
          /\ HostsBuilt[Len(HostsBuilt)].os =
                IF OsName(lastOs) = K("linux") THEN "Linux" ELSE "Windows"

\* C6 witness: after a host with its SSH client, an entry with os "bogus"
\* fails on its os and gets no client.
C6_Witness ==
    /\ cfg_pc = "failed"
    /\ error = Error("ValueError", K("os"))
    /\ lastOs = VStr(K("bogus"))
    /\ Len(HostsBuilt) = 1
    /\ Len(sessions) = 1

\* C6 as stated: an "os" value other than "linux" and "windows" fails.
C6_Original ==
    (lastOs \notin {Unread, Absent, VStr(K("linux")), VStr(K("windows"))}) =>
        cfg_pc = "failed"

\* C7: a role that is not in role_to_host_type gets a plain MultihostHost
\* and never a ValueError; create_role for a host whose role is not in
\* role_to_role_type ends in ValueError, instantiates no role and changes
\* neither the host nor the domains, so hosts_by_role still returns the host.
C7_RoleResolutionAsymmetry ==
    /\ \A i \in DOMAIN HostsBuilt :
          HostsBuilt[i].cls = IF HostsBuilt[i].role \in role_to_host_type
                              THEN "HostSubtype" ELSE "MultihostHost"
    /\ error.what \notin RoleNames
    /\ cfg_pc = "returned" => domains = built
    /\ \A i \in DOMAIN roleObjs :
          LET h == domains[roleObjs[i].host[1]].hosts[roleObjs[i].host[2]]
          IN  /\ h.role \in role_to_role_type
              /\ roleObjs[i].role = h.role
              /\ roleObjs[i].cls = "RoleSubtype"
    /\ Len(roleObjs) <= lastRole.n
    /\ lastRole.n > 0 =>
          LET d == domains[lastRole.host[1]]
              h == d.hosts[lastRole.host[2]]
          IN  /\ h.role \notin role_to_role_type <=>
                    lastRole.error = Error("ValueError", h.role)
              /\ h.role \in role_to_role_type <=> lastRole.error = NoError
              /\ lastRole.error = NoError =>
                    roleObjs[Len(roleObjs)].host = lastRole.host
              /\ \E k \in DOMAIN hosts_by_role(d, h.role) :
                    hosts_by_role(d, h.role)[k] = h

\* C7 witness: a host with the unmapped role b was constructed as a plain
\* MultihostHost; create_role failed twice for it and instantiated nothing.
C7_Witness ==
    /\ cfg_pc = "returned"
    /\ lastRole.n = 2
    /\ lastRole.error = Error("ValueError", K("b"))
    /\ roleObjs = <<>>
    /\ Len(AllHosts(domains)) = 1
    /\ domains[lastRole.host[1]].hosts[lastRole.host[2]].cls = "MultihostHost"

\* C10 (as amended): hosts are constructed in document order, and a failure
\* aborts the construction without undoing anything: the i-th host
\* constructed owns the i-th SSHClient, connected unless lazy_ssh; when a
\* host fails validation or its os check no client exists for it; when its
\* connect() fails its client has been created and connect() attempted; no
\* later host gets a client.
C10_OrderedNotAtomic ==
    /\ \A i \in DOMAIN HostsBuilt :
          /\ HostsBuilt[i].ssh = i
          /\ i <= Len(sessions)
          /\ sessions[i].connects = IF lazy_ssh THEN 0 ELSE 1
    /\ Len(sessions) = Len(HostsBuilt) + 1 <=>
          (cfg_pc = "failed" /\ error.type = "SSHError")
    /\ Len(sessions) # Len(HostsBuilt) + 1 => Len(sessions) = Len(HostsBuilt)
    /\ error.type = "SSHError" =>
          (~lazy_ssh /\ sessions[Len(sessions)].connects = 1)
    /\ cfg_pc = "failed" => (error # NoError /\ built = <<>> /\ roleObjs = <<>>)

\* C10 witness: the host of the second domain fails validation after the host
\* of the first domain was constructed and connected.
C10_Witness ==
    /\ cfg_pc = "failed"
    /\ error.type = "ValueError"
    /\ lastOs # Unread
    /\ Len(domains) = 1
    /\ Len(domains[1].hosts) = 1
    /\ cur.hosts = <<>>
    /\ Len(sessions) = 1
    /\ sessions[1].connects = 1

\* C10 as stated: when the construction of a host fails, no SSHClient exists
\* for that host.
C10_Original ==
    (cfg_pc = "failed" /\ lastOs # Unread) => Len(sessions) = Len(HostsBuilt)

----------------------------------------------------------------------------
(***************************************************************************)
(* Properties of collect_artifacts (checked under SpecArtifacts).          *)
(***************************************************************************)

IoOf(op) == {i \in DOMAIN io : io[i].op = op}

\* C8: with an empty artifact list collect_artifacts does no I/O and
\* returns, whatever the os; on a Windows host with artifacts it raises
\* NotImplementedError and neither runs a remote command nor writes a file;
\* on a Linux host with artifacts it runs at most one remote command, writes
\* only after that command and only the file {dest}/{role}_{hostname}.tgz,
\* and when it returns it has run exactly one command and written that file
\* once.
C8_RemoteCommandOnlyForLinux ==
    /\ self.artifacts = <<>> =>
          /\ io = <<>>
          /\ art_error = NoError
          /\ art_pc \in {"start", "returned"}
    /\ (self.artifacts # <<>> /\ self.os = "Windows") =>
          /\ IoOf("run") = {}
          /\ IoOf("write") = {}
          /\ art_pc # "returned"
          /\ art_pc \in {"start", "mkdir", "match", "failed"}
          /\ (art_pc = "failed" /\ art_error.type # "OSError") =>
                art_error.type = "NotImplementedError"
    /\ (self.artifacts # <<>> /\ self.os = "Linux") =>
          /\ Cardinality(IoOf("run")) <= 1
          /\ Cardinality(IoOf("write")) <= 1
          /\ \A w \in IoOf("write") :
                /\ \E r \in IoOf("run") : r < w
                /\ io[w].what =
                      dest \o <<"/">> \o self.role \o <<"_">> \o self.hostname
                           \o <<".", "tgz">>
          /\ \A r \in IoOf("run") : io[r].what = LinuxCommand(self.artifacts)
          /\ art_error.type \notin {"NotImplementedError", "ValueError"}
          /\ art_pc = "returned" =>
                /\ Len(io) = 3
                /\ io[1] = [op |-> "mkdir", what |-> dest]
                /\ io[2].op = "run"
                /\ io[3].op = "write"

\* C8 witness: a Linux host with two patterns has run the command and
\* written its archive.
C8_Witness ==
    /\ art_pc = "returned"
    /\ self.os = "Linux"
    /\ Len(self.artifacts) = 2
    /\ Len(io) = 3
    /\ io[3].op = "write"

=============================================================================
